---- MODULE Spec2Model ----
(***************************************************************************)
(* A model of engine.py: the query factory (QueryConstructor.construct),   *)
(* the query builders (get_query of every constructor class) and the       *)
(* client (ElasticSearchQueryEngine) that wraps a clause into a request    *)
(* body and sends it with one HTTP GET.                                    *)
(*                                                                         *)
(* Python objects are one-field records [tag |-> payload]: strings, ints,  *)
(* dicts (functions from key to object), lists (sequences), None, builder  *)
(* instances and HTTP responses.  The query_types mapping is the one dict  *)
(* whose iteration order the code depends on, so it is kept as the         *)
(* sequence of its (key, value) items (tag "odict").  A call site is       *)
(* [pos, kw]: the positional arguments and the keyword arguments, bound to *)
(* a signature the way Python binds them.                                  *)
(* An exception is [kind, msg, arg]: the exception class, the message      *)
(* template and the object formatted into it.                              *)
(***************************************************************************)
EXTENDS Integers, Sequences, FiniteSets, TLC

(***************************************************************************)
(* Bounds of the explored inputs.                                          *)
(***************************************************************************)
MaxFields == 2        \* field names available to query_params
MaxFieldsLen == 2     \* length of the fields list of multi_match
MaxQueryTypes == 2    \* entries of a query_types mapping

(***************************************************************************)
(* Python objects.                                                         *)
(***************************************************************************)
Str(s) == [str |-> s]
Num(n) == [int |-> n]
Dict(f) == [dict |-> f]
List(s) == [list |-> s]
ODict(items) == [odict |-> items]
Instance(cls) == [instance |-> cls]
Response(code) == [response |-> code]
NoneVal == [none |-> ""]
Tag(x) == CHOOSE k \in DOMAIN x : TRUE
EmptyDict == [k \in {} |-> NoneVal]

\* bool(x) as used by `assert x`
Truthy(x) ==
    CASE Tag(x) = "str" -> x.str # ""
      [] Tag(x) = "dict" -> DOMAIN x.dict # {}
      [] Tag(x) = "list" -> Len(x.list) > 0
      [] Tag(x) = "odict" -> Len(x.odict) > 0
      [] Tag(x) = "none" -> FALSE
      [] OTHER -> TRUE

\* d.get(key, default)
Get(d, key, default) == IF key \in DOMAIN d.dict THEN d.dict[key] ELSE default

\* d.update(e) on the underlying mappings: the entries of e win
update(d, e) == [k \in DOMAIN d \cup DOMAIN e |-> IF k \in DOMAIN e THEN e[k] ELSE d[k]]

\* "{}.{}".format(path, field)
FormatDotted(path, field) == path \o "." \o field

(***************************************************************************)
(* Outcomes of a call: a returned object or a raised exception.            *)
(***************************************************************************)
NoError == [kind |-> "none", msg |-> "", arg |-> NoneVal]
Ok(x) == [status |-> "ok", val |-> x, err |-> NoError]
Raise(kind, msg, arg) ==
    [status |-> "raise", val |-> NoneVal, err |-> [kind |-> kind, msg |-> msg, arg |-> arg]]

\* sequencing: an exception raised by r propagates, otherwise F goes on with
\* the object r returned
Then(r, F(_)) == IF r.status = "raise" THEN r ELSE F(r.val)

MsgUnsupported == "Unsupported type received as argument: {}"
MsgValues == "Invalid values received as argument: {}"
MsgFields == "Invalid fields received as argument: {}"
MsgPath == "Invalid path received: {}"
MsgKwargs == "Invalid kwargs received: {}"
MsgQueryTypes == "Invalid query_types received as argument: {}"
MsgMissingArg == "get_query() missing required positional argument"
MsgTooManyArgs == "get_query() takes fewer positional arguments"
MsgMultipleValues == "get_query() got multiple values for argument"
MsgSuper == "super(type, obj): obj must be an instance or subtype of type"

(***************************************************************************)
(* Classes, their method resolution order and get_query signatures.        *)
(***************************************************************************)
ConditionalClasses ==
    {"MustQueryConstructor", "ShouldQueryConstructor",
     "FilterQueryConstructor", "BoolQueryConstructor"}

MRO(cls) ==
    IF cls \in ConditionalClasses
    THEN <<cls, "ConditionalQueryMixin", "QueryConstructor", "object">>
    ELSE <<cls, "QueryConstructor", "object">>

\* super(typ, self): the class after typ in the MRO of self's class
Super(typ, selfcls) ==
    LET mro == MRO(selfcls)
    IN IF \E i \in 1..Len(mro) : mro[i] = typ
       THEN Ok(Instance(mro[(CHOOSE i \in 1..Len(mro) : mro[i] = typ) + 1]))
       ELSE Raise("TypeError", MsgSuper, Str(selfcls))

\* the named parameters of get_query after self, and how many have no default
Params(cls) ==
    CASE cls = "MultiMatchQueryConstructor" ->
             <<"index", "mapping", "query", "fields", "q_type">>
      [] cls = "NestedQueryConstructor" -> <<"index", "mapping", "path">>
      [] OTHER -> <<"index", "mapping">>

NumRequired(cls) ==
    CASE cls = "MultiMatchQueryConstructor" -> 4
      [] cls = "NestedQueryConstructor" -> 3
      [] OTHER -> 2

Default(cls, name) == Str("cross_fields")

\* Python's binding of a call [pos, kw] to get_query(self, <Params>, **rest)
Bind(cls, args) ==
    LET names == Params(cls)
        npos == Len(args.pos)
        idx(n) == CHOOSE i \in 1..Len(names) : names[i] = n
        named == {names[i] : i \in 1..Len(names)}
    IN IF npos > Len(names)
       THEN Raise("TypeError", MsgTooManyArgs, Str(cls))
       ELSE IF \E i \in 1..npos : names[i] \in DOMAIN args.kw
       THEN Raise("TypeError", MsgMultipleValues, Str(cls))
       ELSE IF \E i \in (npos + 1)..NumRequired(cls) : names[i] \notin DOMAIN args.kw
       THEN Raise("TypeError", MsgMissingArg,
                  Str(names[CHOOSE i \in (npos + 1)..NumRequired(cls) :
                              /\ names[i] \notin DOMAIN args.kw
                              /\ \A j \in (npos + 1)..(i - 1) : names[j] \in DOMAIN args.kw]))
       ELSE Ok(Dict([n \in named \cup {"**"} |->
                  IF n = "**"
                  THEN Dict([k \in DOMAIN args.kw \ named |-> args.kw[k]])
                  ELSE IF idx(n) <= npos THEN args.pos[idx(n)]
                  ELSE IF n \in DOMAIN args.kw THEN args.kw[n]
                  ELSE Default(cls, n)]))

(***************************************************************************)
(* QueryConstructor.construct                                              *)
(***************************************************************************)
\* construct with a default builder for the tags the chain does not know
construct_DefaultsToTerm(type) ==
    IF type = "match" THEN Ok(Instance("MatchQueryConstructor"))
    ELSE IF type = "multi_match" THEN Ok(Instance("MultiMatchQueryConstructor"))
    ELSE IF type = "nested" THEN Ok(Instance("NestedQueryConstructor"))
    ELSE IF type = "must" THEN Ok(Instance("MustQueryConstructor"))
    ELSE IF type = "should" THEN Ok(Instance("ShouldQueryConstructor"))
    ELSE IF type = "bool" THEN Ok(Instance("BoolQueryConstructor"))
    ELSE Ok(Instance("TermQueryConstructor"))

construct(type) ==
    LET constructor_cls ==
            IF type = "term" THEN Instance("TermQueryConstructor")
            ELSE IF type = "match" THEN Instance("MatchQueryConstructor")
            ELSE IF type = "multi_match" THEN Instance("MultiMatchQueryConstructor")
            ELSE IF type = "nested" THEN Instance("NestedQueryConstructor")
            ELSE IF type = "must" THEN Instance("MustQueryConstructor")
            ELSE IF type = "should" THEN Instance("ShouldQueryConstructor")
            ELSE IF type = "bool" THEN Instance("BoolQueryConstructor")
            ELSE NoneVal
    IN IF Truthy(constructor_cls)
       THEN Ok(constructor_cls)
       ELSE Raise("AssertionError", MsgUnsupported, Str(type))

(***************************************************************************)
(* Leaf builders.                                                          *)
(***************************************************************************)
\* the shared body of TermQueryConstructor.get_query and
\* MatchQueryConstructor.get_query, which differ in the clause key only
LeafBody(key, values) ==
    IF ~Truthy(values)
    THEN Raise("AssertionError", MsgValues, values)
    ELSE LET query_params == Get(values, "query_params", values)
             additional_query_params == Get(values, "additional_query_params", Dict(EmptyDict))
             body == [col \in DOMAIN query_params.dict |-> query_params.dict[col]]
         IN Ok(Dict(key :> Dict(update(body, additional_query_params.dict))))

TermQueryConstructor_get_query(args) ==
    Then(Bind("TermQueryConstructor", args), LAMBDA b : LeafBody("term", b.dict["**"]))

MatchQueryConstructor_get_query(args) ==
    Then(Bind("MatchQueryConstructor", args), LAMBDA b : LeafBody("match", b.dict["**"]))

\* MultiMatch with the update turned around: query, fields and type win over
\* additional_query_params
MultiMatchBody_OwnKeysWin(query, fields, q_type, kwargs) ==
    IF ~Truthy(fields)
    THEN Raise("AssertionError", MsgFields, fields)
    ELSE LET additional_query_params == Get(kwargs, "additional_query_params", Dict(EmptyDict))
             dict_multi_match ==
                 [k \in {"query", "fields", "type"} |->
                     CASE k = "query" -> query
                       [] k = "fields" -> fields
                       [] k = "type" -> q_type]
         IN Ok(Dict("multi_match" :> Dict(update(additional_query_params.dict, dict_multi_match))))

MultiMatchBody(query, fields, q_type, kwargs) ==
    IF ~Truthy(fields)
    THEN Raise("AssertionError", MsgFields, fields)
    ELSE LET additional_query_params == Get(kwargs, "additional_query_params", Dict(EmptyDict))
             dict_multi_match ==
                 [k \in {"query", "fields", "type"} |->
                     CASE k = "query" -> query
                       [] k = "fields" -> fields
                       [] k = "type" -> q_type]
         IN Ok(Dict("multi_match" :> Dict(update(dict_multi_match, additional_query_params.dict))))

MultiMatchQueryConstructor_get_query(args) ==
    Then(Bind("MultiMatchQueryConstructor", args),
         LAMBDA b : MultiMatchBody(b.dict["query"], b.dict["fields"], b.dict["q_type"], b.dict["**"]))

NestedBody(path, values) ==
    IF ~Truthy(path)
    THEN Raise("AssertionError", MsgPath, path)
    ELSE IF ~Truthy(values)
    THEN Raise("AssertionError", MsgValues, values)
    ELSE LET query_params == Get(values, "query_params", values)
             additional_query_params == Get(values, "additional_query_params", Dict(EmptyDict))
             keys == {FormatDotted(path.str, field) : field \in DOMAIN query_params.dict}
             query == [k \in keys |->
                         query_params.dict[CHOOSE field \in DOMAIN query_params.dict :
                                          FormatDotted(path.str, field) = k]]
             clause == [k \in {"path", "query"} |-> IF k = "path" THEN path ELSE Dict(query)]
         IN Ok(Dict("nested" :> Dict(update(clause, additional_query_params.dict))))

NestedQueryConstructor_get_query(args) ==
    Then(Bind("NestedQueryConstructor", args), LAMBDA b : NestedBody(b.dict["path"], b.dict["**"]))

(***************************************************************************)
(* Conditional builders: must, should, filter, bool.                       *)
(***************************************************************************)
RECURSIVE get_query(_, _)
RECURSIVE ConditionalLoop(_, _, _)

\* how ConditionalQueryMixin.get_query calls a sub-builder's get_query
SubQueryArgs(query_type_config) == [pos |-> <<query_type_config>>, kw |-> EmptyDict]

\* the for loop of ConditionalQueryMixin.get_query from item i on, body so far
ConditionalLoop(items, i, body) ==
    IF i > Len(items)
    THEN Ok(List(body))
    ELSE Then(construct(items[i][1]), LAMBDA constructor :
         Then(get_query(constructor, SubQueryArgs(items[i][2])), LAMBDA query :
         ConditionalLoop(items, i + 1, Append(body, query))))

ConditionalMixinBody(kwargs) ==
    IF ~Truthy(kwargs)
    THEN Raise("AssertionError", MsgKwargs, kwargs)
    ELSE IF ~Truthy(Get(kwargs, "query_types", NoneVal))
    THEN Raise("AssertionError", MsgQueryTypes, Get(kwargs, "query_types", NoneVal))
    ELSE ConditionalLoop(Get(kwargs, "query_types", NoneVal).odict, 1, <<>>)

ConditionalQueryMixin_get_query(args) ==
    Then(Bind("ConditionalQueryMixin", args), LAMBDA b : ConditionalMixinBody(b.dict["**"]))

\* get_query of a class cls that calls super(supertype, self).get_query(index,
\* mapping, **kwargs) and wraps the returned body under key
ConditionalBody(cls, supertype, key, args) ==
    Then(Bind(cls, args), LAMBDA b :
    Then(Super(supertype, cls), LAMBDA mixin :
    Then(ConditionalQueryMixin_get_query([pos |-> <<b.dict["index"], b.dict["mapping"]>>,
                                          kw |-> b.dict["**"].dict]), LAMBDA body :
    Ok(Dict(key :> body)))))

MustQueryConstructor_get_query(args) ==
    ConditionalBody("MustQueryConstructor", "MustQueryConstructor", "must", args)

ShouldQueryConstructor_get_query(args) ==
    ConditionalBody("ShouldQueryConstructor", "ShouldQueryConstructor", "should", args)

FilterQueryConstructor_get_query(args) ==
    ConditionalBody("FilterQueryConstructor", "FilterQueryConstructor", "filter", args)

BoolQueryConstructor_get_query(args) ==
    ConditionalBody("BoolQueryConstructor", "FilterQueryConstructor", "bool", args)

\* constructor.get_query(...): dispatch on the class of the instance
get_query(constructor, args) ==
    CASE constructor.instance = "TermQueryConstructor" -> TermQueryConstructor_get_query(args)
      [] constructor.instance = "MatchQueryConstructor" -> MatchQueryConstructor_get_query(args)
      [] constructor.instance = "MultiMatchQueryConstructor" ->
             MultiMatchQueryConstructor_get_query(args)
      [] constructor.instance = "NestedQueryConstructor" -> NestedQueryConstructor_get_query(args)
      [] constructor.instance = "MustQueryConstructor" -> MustQueryConstructor_get_query(args)
      [] constructor.instance = "ShouldQueryConstructor" -> ShouldQueryConstructor_get_query(args)
      [] constructor.instance = "FilterQueryConstructor" -> FilterQueryConstructor_get_query(args)
      [] constructor.instance = "BoolQueryConstructor" -> BoolQueryConstructor_get_query(args)

(***************************************************************************)
(* ElasticSearchQueryEngine                                                *)
(***************************************************************************)
host == "http://localhost"
port == 9200

get_url(url) == host \o ":" \o ToString(port) \o "/" \o url

\* method.lower() for the method names the client uses
Lower(method) == IF method \in {"GET", "Get", "get"} THEN "get" ELSE method

\* the HTTP request send_request hands to requests.<method>
send_request(url, method, body) ==
    [method |-> Lower(method), url |-> get_url(url), headers |-> EmptyDict, json |-> body]

_query(type, index, mapping, kwargs) ==
    Then(construct(type), LAMBDA constructor :
    Then(get_query(constructor, [pos |-> <<index, mapping>>, kw |-> kwargs]), LAMBDA q :
    Ok(Dict(update("query" :> q, Get(Dict(kwargs), "other_params", Dict(EmptyDict)).dict)))))

(***************************************************************************)
(* The calls explored: what a caller hands to a builder or to the client.  *)
(***************************************************************************)
FieldNames == <<"marks", "name", "school", "age">>
Fields == {FieldNames[i] : i \in 1..MaxFields}
FieldValues == {Num(44), Str("Mangu Singh")}
AdditionalKeys == {"boost", "type", FieldNames[1]}
SearchFields == {"name^2", "school^1.2"}
SubTypes == {"term", "match", "must", "filter", "range"}

QueryTypes == {"term", "match", "multi_match", "nested", "must", "should", "filter", "bool"}
LeafTypes == {"term", "match"}
ConditionalTypes == {"must", "should", "filter", "bool"}
OtherTypes == {"range", "Term", ""}

Indexes == {"hinglish11"}
Mappings == {"student/_search", "teacher/_search"}

DictsOver(keys, vals) == UNION {{Dict(f) : f \in [ks -> vals]} : ks \in SUBSET keys}

QueryParamsSet == DictsOver(Fields, FieldValues)
AdditionalParamsSet == {NoneVal} \cup DictsOver(AdditionalKeys, {Num(2)})
OtherParamsSet == {NoneVal, Dict("size" :> Num(100))}
PathSet == {Str("student"), Str("")}
QuerySet == {Str("Mangu Singh"), Str("")}
FieldsSet == {List(s) : s \in UNION {[1..n -> SearchFields] : n \in 0..MaxFieldsLen}}
MatchTypeSet == {NoneVal, Str("best_fields")}
SubConfigs ==
    {Dict(FieldNames[1] :> Num(44)), Dict(EmptyDict),
     Dict("query_types" :> ODict(<<<<"term", Dict(FieldNames[1] :> Num(44))>>>>))}
QueryTypesSet ==
    {NoneVal} \cup
    {ODict(s) : s \in {q \in UNION {[1..n -> SubTypes \X SubConfigs] : n \in 0..MaxQueryTypes} :
                         \A i, j \in 1..Len(q) : q[i][1] = q[j][1] => i = j}}

\* a keyword argument that the caller may leave out (None: left out)
Opt(key, x) == IF x = NoneVal THEN EmptyDict ELSE (key :> x)

\* the keyword arguments of a term/match/nested call: the field conditions as
\* keywords (marks=44) or as query_params={...}, plus additional_query_params
LeafKw(c) ==
    update(IF c.style = "explicit" THEN ("query_params" :> c.qp) ELSE c.qp.dict,
           Opt("additional_query_params", c.aqp))

ConditionalKw(c) == Opt("query_types", c.qts)

NoCall ==
    [api |-> "none", type |-> "", index |-> "", mapping |-> "", style |-> "",
     qp |-> NoneVal, aqp |-> NoneVal, op |-> NoneVal, path |-> NoneVal,
     query |-> NoneVal, fields |-> NoneVal, q_type |-> NoneVal, qts |-> NoneVal]

LeafCalls(api, type) ==
    {[NoCall EXCEPT !.api = api, !.type = type, !.index = i, !.mapping = m,
                    !.style = st, !.qp = qp, !.aqp = aqp, !.op = op] :
        i \in Indexes, m \in Mappings, st \in {"keywords", "explicit"},
        qp \in QueryParamsSet, aqp \in AdditionalParamsSet,
        op \in IF api = "client" THEN OtherParamsSet ELSE {NoneVal}}

MultiMatchCalls(api) ==
    {[NoCall EXCEPT !.api = api, !.type = "multi_match", !.index = i, !.mapping = m,
                    !.query = q, !.fields = f, !.q_type = qt, !.aqp = aqp, !.op = op] :
        i \in Indexes, m \in Mappings, q \in QuerySet, f \in FieldsSet,
        qt \in MatchTypeSet, aqp \in AdditionalParamsSet,
        op \in IF api = "client" THEN OtherParamsSet ELSE {NoneVal}}

NestedCalls(api) ==
    {[c EXCEPT !.path = p] : c \in LeafCalls(api, "nested"), p \in PathSet}

ConditionalCalls(api, type) ==
    {[NoCall EXCEPT !.api = api, !.type = type, !.index = i, !.mapping = m,
                    !.qts = qts, !.op = op] :
        i \in Indexes, m \in Mappings, qts \in QueryTypesSet,
        op \in IF api = "client" THEN OtherParamsSet ELSE {NoneVal}}

(***************************************************************************)
(* State.                                                                  *)
(***************************************************************************)
VARIABLES
    pc,           \* "idle", "constructed", "awaiting", "done", "returned", "raised"
    call,         \* the call in progress
    constructor,  \* the builder QueryConstructor.construct returned to the caller
    outcome,      \* what the call returned or raised
    sent          \* the HTTP requests issued by the call in progress

vars == <<pc, call, constructor, outcome, sent>>

Init ==
    /\ pc = "idle"
    /\ call = NoCall
    /\ constructor = NoneVal
    /\ outcome = Ok(NoneVal)
    /\ sent = <<>>

(***************************************************************************)
(* Direct use of the factory and of a builder.                             *)
(***************************************************************************)
Construct ==
    /\ pc = "idle"
    /\ \E type \in QueryTypes \cup OtherTypes :
         /\ call' = [NoCall EXCEPT !.api = "builder", !.type = type]
         /\ outcome' = construct(type)
         /\ constructor' = outcome'.val
         /\ pc' = IF outcome'.status = "ok" THEN "constructed" ELSE "raised"
    /\ UNCHANGED sent

\* the arguments of builder.get_query(index, mapping, ...) for the call c:
\* query, fields and path are handed over positionally
BuilderArgs(c) ==
    [pos |-> <<Str(c.index), Str(c.mapping)>> \o
             (CASE c.type = "multi_match" -> <<c.query, c.fields>>
                [] c.type = "nested" -> <<c.path>>
                [] OTHER -> <<>>),
     kw |-> CASE c.type = "multi_match" ->
                     update(Opt("q_type", c.q_type), Opt("additional_query_params", c.aqp))
              [] c.type \in ConditionalTypes -> ConditionalKw(c)
              [] OTHER -> LeafKw(c)]

BuilderReturn(c, r) ==
    /\ call' = c
    /\ outcome' = r
    /\ pc' = IF r.status = "ok" THEN "done" ELSE "raised"
    /\ UNCHANGED <<constructor, sent>>

BuilderGetQuery(c) == BuilderReturn(c, get_query(constructor, BuilderArgs(c)))

GetQueryLeaf ==
    /\ pc = "constructed"
    /\ call.type \in LeafTypes
    /\ \E c \in LeafCalls("builder", call.type) : BuilderGetQuery(c)

GetQueryMultiMatch ==
    /\ pc = "constructed"
    /\ call.type = "multi_match"
    /\ \E c \in MultiMatchCalls("builder") : BuilderGetQuery(c)

GetQueryNested ==
    /\ pc = "constructed"
    /\ call.type = "nested"
    /\ \E c \in NestedCalls("builder") : BuilderGetQuery(c)

GetQueryConditional ==
    /\ pc = "constructed"
    /\ call.type \in ConditionalTypes
    /\ \E c \in ConditionalCalls("builder", call.type) : BuilderGetQuery(c)

(***************************************************************************)
(* The client's convenience methods: _query, then send_request.            *)
(***************************************************************************)
\* the keyword arguments each convenience method hands to _query
term_query_kwargs(c) == update(LeafKw(c), Opt("other_params", c.op))

match_kwargs(c) == update(LeafKw(c), Opt("other_params", c.op))

\* query, fields and q_type (cross_fields unless supplied) go on as keywords
multi_match_kwargs(c) ==
    update([k \in {"query", "fields", "q_type"} |->
               CASE k = "query" -> c.query
                 [] k = "fields" -> c.fields
                 [] k = "q_type" -> IF c.q_type = NoneVal THEN Str("cross_fields")
                                    ELSE c.q_type],
           update(Opt("additional_query_params", c.aqp), Opt("other_params", c.op)))

\* path is a named parameter of nested() and is not handed on to _query
nested_kwargs(c) == update(LeafKw(c), Opt("other_params", c.op))

conditional_kwargs(c) == update(ConditionalKw(c), Opt("other_params", c.op))

ClientKwargs(c) ==
    CASE c.type = "term" -> term_query_kwargs(c)
      [] c.type = "match" -> match_kwargs(c)
      [] c.type = "multi_match" -> multi_match_kwargs(c)
      [] c.type = "nested" -> nested_kwargs(c)
      [] OTHER -> conditional_kwargs(c)

\* a client that issues the request whether or not _query returned a body
ClientSend_Unconditional(c, body) ==
    /\ call' = c
    /\ constructor' = NoneVal
    /\ outcome' = IF body.status = "raise" THEN body ELSE outcome
    /\ pc' = IF body.status = "raise" THEN "raised" ELSE "awaiting"
    /\ sent' = Append(sent, send_request(c.index \o "/" \o c.mapping, "get", body.val))

\* return self.send_request("{}/{}".format(index, mapping), "get", body=body),
\* reached only when _query returned a body
ClientSend(c, body) ==
    /\ call' = c
    /\ constructor' = NoneVal
    /\ IF body.status = "raise"
       THEN /\ outcome' = body
            /\ pc' = "raised"
            /\ sent' = sent
       ELSE /\ outcome' = outcome
            /\ pc' = "awaiting"
            /\ sent' = Append(sent, send_request(c.index \o "/" \o c.mapping, "get", body.val))

\* body = self._query(type, index, mapping, **kwargs)
ClientBody(c) == _query(c.type, Str(c.index), Str(c.mapping), ClientKwargs(c))

ClientCall(c) == ClientSend(c, ClientBody(c))

term_query ==
    /\ pc = "idle"
    /\ \E c \in LeafCalls("client", "term") : ClientCall(c)

match ==
    /\ pc = "idle"
    /\ \E c \in LeafCalls("client", "match") : ClientCall(c)

multi_match ==
    /\ pc = "idle"
    /\ \E c \in MultiMatchCalls("client") : ClientCall(c)

nested ==
    /\ pc = "idle"
    /\ \E c \in NestedCalls("client") : ClientCall(c)

must ==
    /\ pc = "idle"
    /\ \E c \in ConditionalCalls("client", "must") : ClientCall(c)

should ==
    /\ pc = "idle"
    /\ \E c \in ConditionalCalls("client", "should") : ClientCall(c)

filter ==
    /\ pc = "idle"
    /\ \E c \in ConditionalCalls("client", "filter") : ClientCall(c)

bool ==
    /\ pc = "idle"
    /\ \E c \in ConditionalCalls("client", "bool") : ClientCall(c)

\* requests.get returns a response (of any status) or raises a transport error,
\* which send_request and the convenience method hand on unchanged
Respond ==
    /\ pc = "awaiting"
    /\ \/ \E code \in {200, 404} :
            /\ outcome' = Ok(Response(code))
            /\ pc' = "returned"
       \/ /\ outcome' = Raise("ConnectionError", "", NoneVal)
          /\ pc' = "raised"
    /\ UNCHANGED <<call, constructor, sent>>

\* the caller goes on to its next call
Finish ==
    /\ pc \in {"done", "returned", "raised"}
    /\ pc' = "idle"
    /\ call' = NoCall
    /\ constructor' = NoneVal
    /\ outcome' = Ok(NoneVal)
    /\ sent' = <<>>

Next ==
    \/ Construct
    \/ GetQueryLeaf
    \/ GetQueryMultiMatch
    \/ GetQueryNested
    \/ GetQueryConditional
    \/ term_query
    \/ match
    \/ multi_match
    \/ nested
    \/ must
    \/ should
    \/ filter
    \/ bool
    \/ Respond
    \/ Finish

Spec == Init /\ [][Next]_vars

(***************************************************************************)
(* Vocabulary of the properties.                                           *)
(***************************************************************************)
\* the builder kind each query type names
ClassOf(type) ==
    CASE type = "term" -> "TermQueryConstructor"
      [] type = "match" -> "MatchQueryConstructor"
      [] type = "multi_match" -> "MultiMatchQueryConstructor"
      [] type = "nested" -> "NestedQueryConstructor"
      [] type = "must" -> "MustQueryConstructor"
      [] type = "should" -> "ShouldQueryConstructor"
      [] type = "filter" -> "FilterQueryConstructor"
      [] type = "bool" -> "BoolQueryConstructor"
      [] OTHER -> "none"

\* construct has acted on the current call
FactoryActed == call.api = "builder" /\ pc # "idle"

\* get_query has acted on the builder the factory returned
BuilderActed == call.api = "builder" /\ constructor # NoneVal /\ pc \in {"done", "raised"}

\* a convenience method of the client has acted
ClientActed == call.api = "client" /\ pc # "idle"

\* a query_types entry a combinator can build: a known type with parameters
\* valid for it
ValidSub(type, cfg) ==
    CASE type \in LeafTypes -> Truthy(cfg)
      [] type \in ConditionalTypes ->
            "query_types" \in DOMAIN cfg.dict /\ Truthy(cfg.dict["query_types"])
      [] OTHER -> FALSE

\* the call's parameters are valid for its query type
ValidCall(c) ==
    CASE c.type \in LeafTypes -> Truthy(c.qp)
      [] c.type = "multi_match" -> Truthy(c.fields)
      [] c.type = "nested" -> Truthy(c.path) /\ Truthy(c.qp)
      [] c.type \in ConditionalTypes ->
            /\ Truthy(c.qts)
            /\ \A i \in 1..Len(c.qts.odict) : ValidSub(c.qts.odict[i][1], c.qts.odict[i][2])
      [] OTHER -> FALSE

\* a required parameter of the call is empty or missing
MissingRequired(c) ==
    CASE c.type \in LeafTypes -> ~Truthy(c.qp)
      [] c.type = "multi_match" -> ~Truthy(c.fields)
      [] c.type = "nested" -> ~Truthy(c.path) \/ ~Truthy(c.qp)
      [] c.type \in ConditionalTypes -> ~Truthy(c.qts)
      [] OTHER -> FALSE

InvalidArgument(o) ==
    /\ o.status = "raise"
    /\ o.err.kind = "AssertionError"
    /\ o.err.msg \in {MsgValues, MsgFields, MsgPath, MsgKwargs, MsgQueryTypes}

UnsupportedType(o, type) == o = Raise("AssertionError", MsgUnsupported, Str(type))

\* merge(a, b) of the specification: the entries of both, b's on collision
Merged(a, b) == [k \in DOMAIN a \cup DOMAIN b |-> IF k \in DOMAIN b THEN b[k] ELSE a[k]]

\* the caller's additionalQueryParams / otherParams as a mapping
Mapping(x) == IF x = NoneVal THEN EmptyDict ELSE x.dict

\* the nested query of the specification: every field prefixed by the path
Prefixed(path, qp) ==
    [k \in {path \o "." \o f : f \in DOMAIN qp} |->
        qp[CHOOSE f \in DOMAIN qp : path \o "." \o f = k]]

\* the clause the builder matching the call produces from the call's parameters
BuilderClause(c) == get_query(Instance(ClassOf(c.type)), BuilderArgs(c))

\* the sub-clause of one query_types entry: the factory-made sub-builder applied
\* to the entry's sub-parameters
SubClause(c, item) ==
    get_query(Instance(ClassOf(item[1])),
              [pos |-> <<Str(c.index), Str(c.mapping)>>, kw |-> item[2].dict]).val

(***************************************************************************)
(* Properties.                                                             *)
(***************************************************************************)
\* C1: for every query type, construct returns a builder of the corresponding
\* kind, and that builder's get_query with valid parameters returns a mapping
\* whose only top-level key is the clause name of the type.
C1_FactoryBuildsClause ==
    /\ (FactoryActed /\ call.type \in QueryTypes) =>
          /\ pc # "constructed" \/ constructor = Instance(ClassOf(call.type))
          /\ constructor # NoneVal
    /\ (BuilderActed /\ ValidCall(call)) =>
          /\ outcome.status = "ok"
          /\ Tag(outcome.val) = "dict"
          /\ DOMAIN outcome.val.dict = {call.type}

\* C2: for every tag that is no query type, construct fails with the
\* unsupported-type error naming the tag and returns no builder.
C2_UnsupportedTypeFails ==
    (FactoryActed /\ call.type \notin QueryTypes) =>
        /\ pc = "raised"
        /\ constructor = NoneVal
        /\ UnsupportedType(outcome, call.type)

C2_Witness ==
    /\ FactoryActed
    /\ call.type = "range"
    /\ pc = "raised"
    /\ outcome.err.arg = Str("range")

\* C3: every builder fails with the invalid-argument error, and returns no
\* clause, whenever its required parameter is empty or missing.
C3_EmptyParameterFails ==
    (BuilderActed /\ MissingRequired(call)) => InvalidArgument(outcome)

\* C4: for non-empty queryParams, Term (Match) returns {"term": M} ({"match": M})
\* with M the merge of queryParams and additionalQueryParams, the latter winning.
C4_LeafMerge ==
    (BuilderActed /\ call.type \in LeafTypes /\ Truthy(call.qp)) =>
        outcome = Ok(Dict(call.type :> Dict(Merged(call.qp.dict, Mapping(call.aqp)))))

\* C5: for a path and non-empty queryParams, Nested returns
\* {"nested": {"path": path, "query": Q}} merged with additionalQueryParams,
\* where Q holds exactly "<path>.<field>" -> value for the entries of queryParams.
C5_NestedPrefix ==
    (BuilderActed /\ call.type = "nested" /\ Truthy(call.path) /\ Truthy(call.qp)) =>
        outcome = Ok(Dict("nested" :>
                      Dict(Merged(("path" :> call.path) @@
                                  ("query" :> Dict(Prefixed(call.path.str, call.qp.dict))),
                                  Mapping(call.aqp)))))

\* C6: for a non-empty query_types mapping, a combinator returns the single key
\* naming it, holding one sub-clause per entry in the order of the entries.
C6_CombinatorSequence ==
    (BuilderActed /\ call.type \in ConditionalTypes /\ ValidCall(call)) =>
        outcome = Ok(Dict(call.type :>
                      List([i \in 1..Len(call.qts.odict) |-> SubClause(call, call.qts.odict[i])])))

\* C7: every convenience method called with valid arguments issues exactly one
\* GET to <host>:<port>/<index>/<mapping> whose body is {"query": clause} with
\* other_params merged at the top level, and returns the response.
C7_ClientSendsOneRequest ==
    (ClientActed /\ ValidCall(call)) =>
        /\ sent = <<[method |-> "get",
                     url |-> host \o ":" \o ToString(port) \o "/" \o
                             call.index \o "/" \o call.mapping,
                     headers |-> EmptyDict,
                     json |-> Dict(Merged("query" :> BuilderClause(call).val,
                                          Mapping(call.op)))]>>
        /\ pc = "returned" => Tag(outcome.val) = "response"
        /\ pc = "raised" => outcome.err.kind = "ConnectionError"

\* C8: for non-empty fields, MultiMatch returns {"multi_match": merge({"query":
\* query, "fields": fields, "type": matchType}, additionalQueryParams)}, fields in
\* the caller's order and type "cross_fields" when matchType is not supplied.
C8_MultiMatchClause ==
    (BuilderActed /\ call.type = "multi_match" /\ Truthy(call.fields)) =>
        outcome = Ok(Dict("multi_match" :>
                      Dict(Merged(("query" :> call.query) @@ ("fields" :> call.fields) @@
                                  ("type" :> IF call.q_type = NoneVal
                                             THEN Str("cross_fields") ELSE call.q_type),
                                  Mapping(call.aqp)))))

C8_Witness ==
    /\ BuilderActed
    /\ pc = "done"
    /\ call.type = "multi_match"
    /\ call.q_type = NoneVal
    /\ call.aqp = Dict("boost" :> Num(2))
    /\ Len(call.fields.list) = 2
    /\ call.fields.list[1] # call.fields.list[2]
    /\ outcome.val.dict["multi_match"].dict["type"] = Str("cross_fields")
    /\ outcome.val.dict["multi_match"].dict["fields"] = call.fields

\* C9: term_query or match called with the field conditions as keywords and
\* with other_params puts other_params only beside "query": the clause under
\* "query" holds exactly the field conditions.
C9_OtherParamsOnlyTopLevel ==
    (/\ ClientActed
     /\ call.type \in LeafTypes
     /\ call.style = "keywords"
     /\ Truthy(call.qp)
     /\ call.aqp = NoneVal
     /\ call.op # NoneVal
     /\ sent # <<>>) =>
        /\ sent[1].json.dict["query"] = Dict(call.type :> Dict(call.qp.dict))
        /\ \A k \in DOMAIN call.op.dict : sent[1].json.dict[k] = call.op.dict[k]

\* C10: a call whose factory or builder fails hands the error to the caller
\* and sends no HTTP request; a request is sent only with the body a completed
\* construction returned; no call sends more than one request.
C10_ConstructionBeforeRequest ==
    /\ Len(sent) <= 1
    /\ ClientActed =>
          IF ClientBody(call).status = "raise"
          THEN sent = <<>> /\ pc = "raised" /\ outcome = ClientBody(call)
          ELSE Len(sent) = 1 /\ sent[1].json = ClientBody(call).val
    /\ ~ClientActed => sent = <<>>

C10_Witness ==
    /\ ClientActed
    /\ pc = "raised"
    /\ call.type = "term"
    /\ InvalidArgument(outcome)
    /\ sent = <<>>

(***************************************************************************)
(* What the code does guarantee where C1, C3, C4, C5 and C7 fail.          *)
(***************************************************************************)
\* the field conditions reach the builder apart from the reserved keywords:
\* as query_params={...}, or as keywords with no reserved keyword beside them
Separated(c) == c.style = "explicit" \/ (c.aqp = NoneVal /\ c.op = NoneVal)

\* beside C1: term, match, multi_match and nested build a clause with their key
LeafKindsBuildClause ==
    (BuilderActed /\ ValidCall(call) /\ call.type \notin ConditionalTypes) =>
        outcome.status = "ok" /\ DOMAIN outcome.val.dict = {call.type}

\* beside C3: empty fields, an empty path and an empty or missing query_types of
\* must and should are refused with the invalid-argument error
CheckedParametersFail ==
    (/\ BuilderActed
     /\ \/ call.type \in {"multi_match", "must", "should"} /\ MissingRequired(call)
        \/ call.type = "nested" /\ ~Truthy(call.path)) => InvalidArgument(outcome)

\* beside C4: the merge of C4 holds when the field conditions are separated
LeafMergeSeparated ==
    (BuilderActed /\ call.type \in LeafTypes /\ Truthy(call.qp) /\ Separated(call)) =>
        outcome = Ok(Dict(call.type :> Dict(Merged(call.qp.dict, Mapping(call.aqp)))))

\* beside C5: the prefixing of C5 holds when the field conditions are separated
NestedPrefixSeparated ==
    (/\ BuilderActed
     /\ call.type = "nested"
     /\ Truthy(call.path)
     /\ Truthy(call.qp)
     /\ Separated(call)) =>
        outcome = Ok(Dict("nested" :>
                      Dict(Merged(("path" :> call.path) @@
                                  ("query" :> Dict(Prefixed(call.path.str, call.qp.dict))),
                                  Mapping(call.aqp)))))

\* beside C7: term_query, match and multi_match send the one request of C7
LeafClientSendsOneRequest ==
    (/\ ClientActed
     /\ ValidCall(call)
     /\ call.type = "multi_match" \/ (call.type \in LeafTypes /\ Separated(call))) =>
        /\ sent = <<[method |-> "get",
                     url |-> host \o ":" \o ToString(port) \o "/" \o
                             call.index \o "/" \o call.mapping,
                     headers |-> EmptyDict,
                     json |-> Dict(Merged("query" :> BuilderClause(call).val,
                                          Mapping(call.op)))]>>
        /\ pc = "returned" => Tag(outcome.val) = "response"
        /\ pc = "raised" => outcome.err.kind = "ConnectionError"

\* beside C6 and C7: no combinator ever returns a clause, and the client's
\* nested, must, should, filter and bool never send a request
CombinatorsNeverBuild ==
    /\ (BuilderActed /\ call.type \in ConditionalTypes) => outcome.status = "raise"
    /\ (ClientActed /\ call.type \in ConditionalTypes \cup {"nested"}) =>
          sent = <<>> /\ pc = "raised"

====
